---------------------------- MODULE Spec2Model ----------------------------
(***************************************************************************)
(* A model of realm-profiler (profiler.go): the rate-limited worker pool,  *)
(* the task generator, the execution log and the shutdown flush.           *)
(*                                                                         *)
(* Time is a global clock counted in ticks, TicksPerSec ticks to the       *)
(* second.  External commands take an arbitrary number of ticks and end    *)
(* with or without an error.  Strings produced by randomString are drawn   *)
(* from the finite set RandNames.                                          *)
(***************************************************************************)
EXTENDS Integers, Sequences, FiniteSets, TLC

\* ------------------------------------------------------------------ bounds
MaxThreads == 2       \* largest value of the -maxThreads flag
MaxQPS == 1           \* largest value of the -maxQueriesPerSec flag
TicksPerSec == 2      \* clock resolution: ticks in time.Second
MaxTime == 2          \* the clock stops advancing at this tick
MaxOps == 2           \* loop iterations the workers may begin, in total

\* Goroutine slots: one more than the semaphore admits.
Procs == 1..(MaxThreads + 1)

\* ----------------------------------------------------------- configuration
DefaultChainId == "dev"

Modes == {"addpkg", "addpkg+call", "call", "balanceQuery", "qrender", "bogus"}
PackageNames == {"", "pkg"}
FunctionNames == {""}
PkgDirs == {"."}
ChainIds == {DefaultChainId}

\* The result of randomString(MaxPackageLength).
RandNames == {"rnda", "rndb"}

CommandLineArgs ==
    [MaxThreads : 1..MaxThreads, MaxQPS : 1..MaxQPS, Mode : Modes,
     PackageName : PackageNames, FunctionName : FunctionNames,
     PkgDir : PkgDirs, ChainID : ChainIds]

\* TRUE when validateArgs returns, FALSE when it prints an error and exits 1.
validateArgs(a) ==
    /\ ~(a.Mode = "addpkg" /\ a.FunctionName # "")
    /\ ~(a.Mode = "call" /\ a.PackageName = "")
    /\ (a.Mode = "balanceQuery" =>
            /\ a.PackageName = ""
            /\ a.FunctionName = ""
            /\ a.PkgDir = ".")
    /\ (a.Mode = "qrender" =>
            /\ a.PackageName # ""
            /\ a.ChainID = DefaultChainId)

\* -------------------------------------------------------------- commands
NoCmd == [verb |-> "none", pkg |-> "", func |-> "", pkgdir |-> "", chainid |-> ""]
PanicCmd == [verb |-> "panic", pkg |-> "", func |-> "", pkgdir |-> "", chainid |-> ""]

\* generateCommand; rnd is what randomString returns if it is called.
generateCommand(mode, packageName, functionName, pkgDir, chainID, rnd) ==
    LET p == IF packageName = "" THEN rnd ELSE packageName
        f == IF functionName = "" THEN "Main" ELSE functionName
    IN  CASE mode = "addpkg" ->
                [verb |-> "addpkg", pkg |-> p, func |-> "", pkgdir |-> pkgDir,
                 chainid |-> chainID]
          [] mode = "addpkg+call" -> PanicCmd
          [] mode = "call" ->
                [verb |-> "call", pkg |-> p, func |-> f, pkgdir |-> "",
                 chainid |-> chainID]
          [] mode = "balanceQuery" ->
                [verb |-> "balanceQuery", pkg |-> "", func |-> "", pkgdir |-> "",
                 chainid |-> ""]
          [] mode = "qrender" ->
                [verb |-> "qrender", pkg |-> p, func |-> "", pkgdir |-> "",
                 chainid |-> ""]
          [] OTHER -> PanicCmd

\* ------------------------------------------------------------- the log
\* An ExecutionLog value.  worker, iter and failed are history fields: the
\* loop iteration that produced the sample and whether its first command
\* failed.  whole is FALSE for a value read while it was being written.
Sample(ts, dur, w, i, e) ==
    [Timestamp |-> ts, ResponseTime |-> dur, worker |-> w, iter |-> i,
     failed |-> e, whole |-> TRUE]

PartialSample(w, i) ==
    [Timestamp |-> 0, ResponseTime |-> 0, worker |-> w, iter |-> i,
     failed |-> FALSE, whole |-> FALSE]

\* Timestamp.Format(time.RFC3339): whole seconds.
FormatRFC3339(ts) == ts \div TicksPerSec

\* fmt.Sprintf("%f", d.Seconds()): seconds and microseconds, rounded.
FormatSeconds(d) ==
    LET micros == ((d * 2000000) + TicksPerSec) \div (2 * TicksPerSec)
    IN  <<micros \div 1000000, micros % 1000000>>

HeaderRow == <<"Timestamp", "ResponseTime">>
FormatRow(s) == <<FormatRFC3339(s.Timestamp), FormatSeconds(s.ResponseTime)>>

\* Variant: the last row never reaches the file.
CsvOfLastRowLost(l) ==
    [exists |-> TRUE, header |-> HeaderRow,
     rows |-> [i \in 1..(IF Len(l) = 0 THEN 0 ELSE Len(l) - 1) |-> FormatRow(l[i])]]

\* csvFile: absent, or a header and the rows written after it.
NoFile == [exists |-> FALSE, header |-> <<>>, rows |-> <<>>]
CsvOf(l) ==
    [exists |-> TRUE, header |-> HeaderRow,
     rows |-> [i \in 1..Len(l) |-> FormatRow(l[i])]]

\* ----------------------------------------------------------------- state
VARIABLES
    args,           \* the parsed command line
    proc,           \* "parsing", "running", "exit0", "exit1", "panic"
    now,            \* the clock
    sem,            \* number of tokens in the sem channel
    pc,             \* each goroutine slot's position in executeTask
    queryCount,     \* executeTask's queryCount
    lastQueryTime,  \* executeTask's lastQueryTime
    packageName,    \* executeTask's packageName parameter (it is assigned to)
    cmdStr,         \* executeTask's cmdStr
    cmdStr2,        \* executeTask's cmdStr2
    start,          \* executeTask's start
    err,            \* executeTask's err
    duration,       \* executeTask's duration
    hdr,            \* the slice header append has read, while appending
    logs,           \* main's logs
    logMutex,       \* the holder of logMutex, 0 when unlocked
    signalChan,     \* number of signals buffered in signalChan
    hpc,            \* the signal goroutine: "wait", "save", "exit"
    saved,          \* saveLogs' logs parameter
    file,           \* contents of csvFile, NoFile when it does not exist
    starts,         \* history: the ticks at which each worker began operations
    winOps,         \* history: operations begun since the last window reset
    done,           \* history: iterations of each worker that have appended
    signalled,      \* history: a stop signal has been delivered
    flushes,        \* history: number of calls of saveLogs
    ioErr,          \* history: what failed in saveLogs: "none", "create", "write"
    reported,       \* history: saveLogs printed "Failed to create CSV file"
    execs,          \* history: calls of executeCommand by each worker
    lastReturn      \* history: the tick at which a worker's last command returned

wvars == <<pc, queryCount, lastQueryTime, packageName, cmdStr, cmdStr2, start,
           err, duration, hdr>>
hvars == <<signalChan, hpc, saved, file, signalled, flushes, ioErr, reported>>
vars == <<args, proc, now, sem, wvars, logs, logMutex, hvars, starts, winOps, done,
          execs, lastReturn>>

\* Everything but the command line and the file left by an earlier run.
InitRest ==
    /\ proc = "parsing"
    /\ now = 0
    /\ sem = 0
    /\ pc = [w \in Procs |-> "none"]
    /\ queryCount = [w \in Procs |-> 0]
    /\ lastQueryTime = [w \in Procs |-> 0]
    /\ packageName = [w \in Procs |-> ""]
    /\ cmdStr = [w \in Procs |-> NoCmd]
    /\ cmdStr2 = [w \in Procs |-> NoCmd]
    /\ start = [w \in Procs |-> 0]
    /\ err = [w \in Procs |-> FALSE]
    /\ duration = [w \in Procs |-> 0]
    /\ hdr = [w \in Procs |-> <<>>]
    /\ logs = <<>>
    /\ logMutex = 0
    /\ signalChan = 0
    /\ hpc = "wait"
    /\ saved = <<>>
    /\ starts = [w \in Procs |-> <<>>]
    /\ winOps = [w \in Procs |-> 0]
    /\ done = [w \in Procs |-> 0]
    /\ signalled = FALSE
    /\ flushes = 0
    /\ ioErr = "none"
    /\ reported = FALSE
    /\ execs = [w \in Procs |-> 0]
    /\ lastReturn = [w \in Procs |-> 0]

Init ==
    /\ args \in CommandLineArgs
    /\ file = NoFile
    /\ InitRest

\* ------------------------------------------------------------------ main
\* main, lines 106-152: validateArgs, then the channel, the log and the
\* signal goroutine are set up.
Validate ==
    /\ proc = "parsing"
    /\ proc' = IF validateArgs(args) THEN "running" ELSE "exit1"
    /\ UNCHANGED <<args, now, sem, wvars, logs, logMutex, hvars, starts, winOps, done,
                   execs, lastReturn>>

\* Variant: a channel that admits one token more.
SemHasRoomOffByOne == sem <= args.MaxThreads

\* sem <- struct{}{} on a channel of capacity maxThreads may proceed.
SemHasRoom == sem < args.MaxThreads

\* One turn of main's spawn loop, with the first statements of executeTask.
Spawn ==
    /\ proc = "running"
    /\ SemHasRoom
    /\ \E w \in Procs :
        /\ pc[w] = "none"
        /\ \A v \in Procs : v < w => pc[v] # "none"
        /\ sem' = sem + 1
        /\ pc' = [pc EXCEPT ![w] = "throttle"]
        /\ queryCount' = [queryCount EXCEPT ![w] = 0]
        /\ lastQueryTime' = [lastQueryTime EXCEPT ![w] = now]
        /\ packageName' = [packageName EXCEPT ![w] = args.PackageName]
    /\ UNCHANGED <<args, proc, now, cmdStr, cmdStr2, start, err, duration, hdr,
                   logs, logMutex, hvars, starts, winOps, done,
                   execs, lastReturn>>

\* The clock.
Tick ==
    /\ proc \in {"parsing", "running"}
    /\ now < MaxTime
    /\ now' = now + 1
    /\ UNCHANGED <<args, proc, sem, wvars, logs, logMutex, hvars, starts, winOps, done,
                   execs, lastReturn>>

\* ------------------------------------------------------------ executeTask
RECURSIVE SumOver(_, _)
SumOver(f, S) ==
    IF S = {} THEN 0
    ELSE LET x == CHOOSE y \in S : TRUE IN f[x] + SumOver(f, S \ {x})

\* Loop iterations begun so far, by all workers.
Begun == SumOver([w \in Procs |-> Len(starts[w])], Procs)

Composite == args.Mode = "addpkg+call"

\* Variant: the window test with > for >=.
WindowExpiredStrict(w) == now - lastQueryTime[w] > TicksPerSec

\* time.Since(lastQueryTime) >= time.Second
WindowExpired(w) == now - lastQueryTime[w] >= TicksPerSec

\* Variant: the throttle test with > for >=.
ThrottleFullOffByOne(qc) == qc > args.MaxQPS

\* queryCount >= maxQPS
ThrottleFull(qc) == qc >= args.MaxQPS

\* Variant: the throttled worker sleeps a second too long.
WakeTimeLate(w) == lastQueryTime[w] + 2 * TicksPerSec

\* lastQueryTime.Add(time.Second): when the sleep of a throttled worker ends.
WakeTime(w) == lastQueryTime[w] + TicksPerSec

\* Variant: the composite mode is handed to generateCommand as it is.
FirstModeRaw == args.Mode

\* firstMode: the mode of the first command of an iteration.
FirstMode == IF Composite THEN "addpkg" ELSE args.Mode

\* The head of the loop up to the first executeCommand, entered from the end
\* of the previous iteration or when time.Sleep returns: the window reset,
\* the throttle test, queryCount++ and the first generateCommand.
ThrottleStep(w) ==
    /\ proc = "running"
    /\ \/ pc[w] = "throttle"
       \/ pc[w] = "sleep" /\ now >= WakeTime(w)
    /\ LET reset == WindowExpired(w)
           qc == IF reset THEN 0 ELSE queryCount[w]
           lq == IF reset THEN now ELSE lastQueryTime[w]
           wo == IF reset THEN 0 ELSE winOps[w]
       IN  /\ lastQueryTime' = [lastQueryTime EXCEPT ![w] = lq]
           /\ IF ThrottleFull(qc)
              THEN /\ pc' = [pc EXCEPT ![w] = "sleep"]
                   /\ queryCount' = [queryCount EXCEPT ![w] = qc]
                   /\ winOps' = [winOps EXCEPT ![w] = wo]
                   /\ UNCHANGED <<proc, packageName, cmdStr, start, starts, execs>>
              ELSE \E rnd \in RandNames :
                   LET firstMode == FirstMode
                       pn == IF Composite /\ packageName[w] = ""
                             THEN rnd ELSE packageName[w]
                       cmd == generateCommand(firstMode, pn, args.FunctionName,
                                              args.PkgDir, args.ChainID, rnd)
                   IN  /\ queryCount' = [queryCount EXCEPT ![w] = qc + 1]
                       /\ packageName' = [packageName EXCEPT ![w] = pn]
                       /\ IF cmd = PanicCmd
                          THEN /\ proc' = "panic"
                               /\ winOps' = [winOps EXCEPT ![w] = wo]
                               /\ UNCHANGED <<pc, cmdStr, start, starts, execs>>
                          ELSE /\ cmdStr' = [cmdStr EXCEPT ![w] = cmd]
                               /\ start' = [start EXCEPT ![w] = now]
                               /\ pc' = [pc EXCEPT ![w] = "exec1"]
                               /\ starts' = [starts EXCEPT ![w] = Append(@, now)]
                               /\ winOps' = [winOps EXCEPT ![w] = wo + 1]
                               /\ execs' = [execs EXCEPT ![w] = @ + 1]
                               /\ UNCHANGED proc
    /\ UNCHANGED <<args, now, sem, cmdStr2, err, duration, hdr, logs, logMutex,
                   hvars, done, lastReturn>>

\* ThrottleStep, while the iterations begun are fewer than MaxOps.
Throttle(w) ==
    /\ Begun < MaxOps
    /\ ThrottleStep(w)

\* Variant: the loop is left when the command fails.
AfterCommandStopOnError(e) ==
    IF e THEN "stopped" ELSE IF Composite THEN "exec2" ELSE "lock"

\* Where the loop goes once executeCommand(cmdStr, password) has returned e.
AfterCommand(e) == IF Composite THEN "exec2" ELSE "lock"

\* Variant: the duration is taken from the return of the previous command.
MeasuredDurationLastLeg(w) == now - lastReturn[w]

\* duration := time.Since(start)
MeasuredDuration(w) == now - start[w]

\* The first executeCommand returns, with or without an error.  In composite
\* mode the second command is generated and started; otherwise the duration
\* is taken.
Exec1Return(w) ==
    /\ proc = "running"
    /\ pc[w] = "exec1"
    /\ \E e \in BOOLEAN :
        /\ err' = [err EXCEPT ![w] = e]
        /\ pc' = [pc EXCEPT ![w] = AfterCommand(e)]
    /\ IF Composite
       THEN /\ \E rnd \in RandNames :
                cmdStr2' = [cmdStr2 EXCEPT ![w] =
                    generateCommand("call", packageName[w], args.FunctionName,
                                    args.PkgDir, args.ChainID, rnd)]
            /\ execs' = [execs EXCEPT ![w] = @ + 1]
            /\ UNCHANGED duration
       ELSE /\ duration' = [duration EXCEPT ![w] = MeasuredDuration(w)]
            /\ UNCHANGED <<cmdStr2, execs>>
    /\ lastReturn' = [lastReturn EXCEPT ![w] = now]
    /\ UNCHANGED <<args, proc, now, sem, queryCount, lastQueryTime, packageName,
                   cmdStr, start, hdr, logs, logMutex, hvars, starts, winOps, done>>

\* Variant: packageName is not reset.
ResetPackageNameKept(p) == p

\* The value packageName has after the call leg.
ResetPackageName(p) == ""

\* The second executeCommand returns (its result is dropped); packageName is
\* reset and the duration is taken.
Exec2Return(w) ==
    /\ proc = "running"
    /\ pc[w] = "exec2"
    /\ packageName' = [packageName EXCEPT ![w] = ResetPackageName(@)]
    /\ duration' = [duration EXCEPT ![w] = MeasuredDuration(w)]
    /\ lastReturn' = [lastReturn EXCEPT ![w] = now]
    /\ pc' = [pc EXCEPT ![w] = "lock"]
    /\ UNCHANGED <<args, proc, now, sem, queryCount, lastQueryTime, cmdStr,
                   cmdStr2, start, err, hdr, logs, logMutex, hvars, starts,
                   winOps, done, execs>>

\* Variant: no mutual exclusion.
MutexFreeAlways == TRUE

\* logMutex.Lock() may proceed.
MutexFree == logMutex = 0

\* logMutex.Lock(), and append reads the slice *logs.
Lock(w) ==
    /\ proc = "running"
    /\ pc[w] = "lock"
    /\ MutexFree
    /\ logMutex' = w
    /\ hdr' = [hdr EXCEPT ![w] = logs]
    /\ pc' = [pc EXCEPT ![w] = "append"]
    /\ UNCHANGED <<args, proc, now, sem, queryCount, lastQueryTime, packageName,
                   cmdStr, cmdStr2, start, err, duration, logs, hvars, starts,
                   winOps, done,
                   execs, lastReturn>>

\* Variant: logMutex.Unlock() is missing.
MutexAfterUnlockHeld(w) == w

\* The holder of logMutex after logMutex.Unlock().
MutexAfterUnlock(w) == 0

\* The slice append stores into *logs.
AppendLog(h, s) == Append(h, s)

\* *logs = append(...) is stored, logMutex.Unlock(), and the iteration's
\* variables go out of scope.
AppendUnlock(w) ==
    /\ proc = "running"
    /\ pc[w] = "append"
    /\ logs' = AppendLog(hdr[w],
                         Sample(now, duration[w], w, Len(starts[w]), err[w]))
    /\ logMutex' = MutexAfterUnlock(w)
    /\ done' = [done EXCEPT ![w] = @ + 1]
    /\ pc' = [pc EXCEPT ![w] = "throttle"]
    /\ cmdStr' = [cmdStr EXCEPT ![w] = NoCmd]
    /\ cmdStr2' = [cmdStr2 EXCEPT ![w] = NoCmd]
    /\ err' = [err EXCEPT ![w] = FALSE]
    /\ duration' = [duration EXCEPT ![w] = 0]
    /\ start' = [start EXCEPT ![w] = 0]
    /\ hdr' = [hdr EXCEPT ![w] = <<>>]
    /\ lastReturn' = [lastReturn EXCEPT ![w] = 0]
    /\ UNCHANGED <<args, proc, now, sem, queryCount, lastQueryTime, packageName,
                   hvars, starts, winOps, execs>>

\* ------------------------------------------------------------- shutdown
\* A stop signal, once signal.Notify has registered signalChan (capacity 1):
\* it is buffered, or dropped when the channel is full.
Signal ==
    /\ proc = "running"
    /\ signalChan' = 1
    /\ signalled' = TRUE
    /\ UNCHANGED <<args, proc, now, sem, wvars, logs, logMutex, hpc, saved, file,
                   flushes, ioErr, reported, starts, winOps, done,
                   execs, lastReturn>>

\* What the signal goroutine can read as logs without holding logMutex: the
\* slice as stored, or, racing with an append, the longer slice whose last
\* element is not written yet.
RacyLogs ==
    {logs} \cup {Append(logs, PartialSample(w, Len(starts[w]))) :
                    w \in {v \in Procs : pc[v] = "append"}}

\* <-signalChan, and saveLogs(logs) is called.
HandlerRecv ==
    /\ proc = "running"
    /\ hpc = "wait"
    /\ signalChan = 1
    /\ signalChan' = 0
    /\ saved' \in RacyLogs
    /\ flushes' = flushes + 1
    /\ hpc' = "save"
    /\ UNCHANGED <<args, proc, now, sem, wvars, logs, logMutex, file, signalled,
                   ioErr, reported, starts, winOps, done,
                   execs, lastReturn>>

\* Variant: the goroutine waits for the next signal instead of exiting.
HandlerAfterSaveLoop == [hpc |-> "wait", proc |-> "running"]

\* What follows saveLogs in the signal goroutine: os.Exit(0).
HandlerAfterSave == [hpc |-> "exit", proc |-> "exit0"]

\* The file a failing write leaves behind: os.Create has truncated it, and
\* the flushes that succeeded have written the header and the first k rows
\* (the header is buffered until the first flush).
TruncatedCsv(l, k) ==
    IF k = 0 THEN [exists |-> TRUE, header |-> <<>>, rows |-> <<>>]
    ELSE [exists |-> TRUE, header |-> HeaderRow,
          rows |-> [i \in 1..k |-> FormatRow(l[i])]]

\* The ways saveLogs(l) can end: os.Create fails, which is printed, and
\* the file is left as it was; or a write fails after k rows, which
\* nothing looks at (the results of writer.Write are dropped and
\* writer.Error is not called); or the header and every row are written.
SaveOutcomes(l, old) ==
    {[file |-> old, ioErr |-> "create", reported |-> TRUE],
     [file |-> CsvOf(l), ioErr |-> "none", reported |-> FALSE]}
    \cup {[file |-> TruncatedCsv(l, k), ioErr |-> "write", reported |-> FALSE] :
             k \in {j \in 0..Len(l) : j = 0 \/ j < Len(l)}}

\* saveLogs runs to its end and os.Exit(0) follows.
SaveLogs ==
    /\ proc = "running"
    /\ hpc = "save"
    /\ \E o \in SaveOutcomes(saved, file) :
        /\ file' = o.file
        /\ ioErr' = o.ioErr
        /\ reported' = o.reported
    /\ hpc' = HandlerAfterSave.hpc
    /\ proc' = HandlerAfterSave.proc
    /\ UNCHANGED <<args, now, sem, wvars, logs, logMutex, signalChan, saved,
                   signalled, flushes, starts, winOps, done,
                   execs, lastReturn>>

Next ==
    \/ Validate
    \/ Spawn
    \/ Tick
    \/ Signal
    \/ HandlerRecv
    \/ SaveLogs
    \/ \E w \in Procs :
        \/ Throttle(w)
        \/ Exec1Return(w)
        \/ Exec2Return(w)
        \/ Lock(w)
        \/ AppendUnlock(w)

Spec == Init /\ [][Next]_vars

\* -------------------------------------------------- prompt scheduling
\* A second specification for what the program does on a machine that is
\* not loaded and with commands that return within a second: a single
\* worker with maxQueriesPerSec 1, whose steps take no time, so that the clock advances only while
\* the worker waits for its command or sleeps, and no command is left
\* running for a whole second.  The run is followed to the end of its third
\* second.  An earlier run may have left a results file.
PromptHorizon == 3 * TicksPerSec - 1

OldCsv ==
    [exists |-> TRUE, header |-> HeaderRow,
     rows |-> [i \in 1..5 |-> <<0, <<9, 0>>>>]]

InitPrompt ==
    /\ args \in {a \in CommandLineArgs : a.MaxThreads = 1 /\ a.MaxQPS = 1}
    /\ file \in {NoFile, OldCsv}
    /\ InitRest

\* The tick at which the command worker w waits for was started.
CmdStart(w) == IF pc[w] = "exec2" THEN lastReturn[w] ELSE start[w]

\* Worker w cannot take a step before the clock advances.
Waiting(w) ==
    \/ pc[w] \in {"exec1", "exec2"} /\ (now + 1) - CmdStart(w) < TicksPerSec
    \/ pc[w] = "sleep" /\ now < WakeTime(w)

TickPrompt ==
    /\ proc = "running"
    /\ ~SemHasRoom
    /\ \A w \in Procs : pc[w] # "none" => Waiting(w)
    /\ now < PromptHorizon
    /\ now' = now + 1
    /\ UNCHANGED <<args, proc, sem, wvars, logs, logMutex, hvars, starts, winOps,
                   done, execs, lastReturn>>

NextPrompt ==
    \/ Validate
    \/ Spawn
    \/ TickPrompt
    \/ Signal
    \/ HandlerRecv
    \/ SaveLogs
    \/ \E w \in Procs :
        \/ ThrottleStep(w)
        \/ Exec1Return(w)
        \/ Exec2Return(w)
        \/ Lock(w)
        \/ AppendUnlock(w)

SpecPrompt == InitPrompt /\ [][NextPrompt]_vars

\* ---------------------------------------------------------------- claims
Workers == {w \in Procs : pc[w] # "none"}

\* Operations worker w began at a tick in T.
BegunIn(w, T) == Cardinality({i \in 1..Len(starts[w]) : starts[w][i] \in T})

\* C1 (as claimed): in every rolling one-second interval [t, t+1s) a worker
\* begins at most maxQPS operations.
C1_RollingWindowCap ==
    \A w \in Procs : \A t \in 0..MaxTime :
        BegunIn(w, t..(t + TicksPerSec - 1)) <= args.MaxQPS

\* C1 (amended): in each of its own windows, from one reset of lastQueryTime
\* to the next, a worker begins at most maxQPS operations.
C1_OwnWindowCap ==
    \A w \in Procs : BegunIn(w, lastQueryTime[w]..MaxTime) <= args.MaxQPS

\* C1 witness: a worker has filled one window and begun an operation in the
\* next, less than a second after the previous one.
C1_Witness ==
    \E w \in Procs :
        /\ Len(starts[w]) = args.MaxQPS + 1
        /\ starts[w][args.MaxQPS] < lastQueryTime[w]
        /\ starts[w][args.MaxQPS + 1] >= lastQueryTime[w]
        /\ starts[w][args.MaxQPS + 1] - starts[w][1] < TicksPerSec

\* C2: at most maxThreads worker loops exist, each holding one token of sem,
\* and so at most maxThreads external commands are running.
C2_PoolBounded ==
    /\ Cardinality(Workers) <= args.MaxThreads
    /\ sem = Cardinality(Workers)
    /\ Cardinality({w \in Procs : pc[w] \in {"exec1", "exec2"}}) <= args.MaxThreads

\* C2 witness: the pool is full and every worker runs a command.
C2_Witness ==
    /\ args.MaxThreads > 1
    /\ Cardinality(Workers) = args.MaxThreads
    /\ \A w \in Workers : pc[w] = "exec1"

\* C3 (as claimed): saveLogs never runs while a worker is between Lock and
\* Unlock, and what it was given holds no partially written sample.
C3_FlushSerialized ==
    /\ hpc = "save" => logMutex = 0
    /\ \A i \in 1..Len(saved) : saved[i].whole

C5_FlushLosesNothing ==
    (proc = "exit0" /\ file.exists /\ ioErr = "none") =>
        /\ Len(file.rows) >= Len(logs)
        /\ \A i \in 1..Len(logs) : file.rows[i] = FormatRow(logs[i])

\* C6: the log holds exactly one sample for every iteration that has
\* completed its append, and nothing else.
C6_OneSamplePerAppend ==
    /\ Len(logs) = SumOver(done, Procs)
    /\ \A w \in Procs : \A k \in 1..done[w] :
        Cardinality({i \in 1..Len(logs) :
                        logs[i].worker = w /\ logs[i].iter = k}) = 1

\* C6 witness: two workers have appended.
C6_Witness ==
    /\ Len(logs) = 2
    /\ logs[1].worker # logs[2].worker

\* C7: in addpkg+call mode with no package configured, the call leg uses the
\* non-empty name of the addpkg leg before it, and packageName is empty from
\* the end of the call leg until the next cycle draws a name.
C7_CompositeSharesName ==
    (Composite /\ args.PackageName = "") =>
        \A w \in Workers :
            /\ pc[w] = "exec1" =>
                /\ cmdStr[w].verb = "addpkg"
                /\ cmdStr[w].pkg \in RandNames
                /\ packageName[w] = cmdStr[w].pkg
            /\ pc[w] = "exec2" =>
                /\ cmdStr2[w].verb = "call"
                /\ cmdStr2[w].pkg = cmdStr[w].pkg
                /\ cmdStr2[w].pkg \in RandNames
            /\ pc[w] \in {"lock", "append"} =>
                /\ cmdStr2[w].pkg = cmdStr[w].pkg
                /\ cmdStr2[w].pkg \in RandNames
            /\ pc[w] \in {"lock", "append", "throttle", "sleep"} =>
                packageName[w] = ""

\* C7 witness: a worker is in the call leg of its second cycle.
C7_Witness ==
    /\ Composite /\ args.PackageName = ""
    /\ \E w \in Workers : Len(starts[w]) = 2 /\ pc[w] = "exec2"

\* C8 (as claimed): in addpkg+call mode with a package configured, every
\* command of every cycle names the configured package.
C8_PinnedStaysPinned ==
    (Composite /\ args.PackageName # "") =>
        \A w \in Workers :
            /\ cmdStr[w].verb # "none" => cmdStr[w].pkg = args.PackageName
            /\ cmdStr2[w].verb # "none" => cmdStr2[w].pkg = args.PackageName

\* Iterations of w that have begun and not yet appended.
InFlight(w) == IF pc[w] \in {"exec1", "exec2", "lock", "append"} THEN 1 ELSE 0

\* C9: a worker never leaves its loop, whether or not a command failed; each
\* iteration it began has appended one sample or is on its way to do so; and
\* every sample in the log is whole, with a non-negative duration.
C9_FailureDoesNotStop ==
    /\ \A w \in Workers :
        /\ pc[w] \in {"throttle", "sleep", "exec1", "exec2", "lock", "append"}
        /\ Len(starts[w]) = done[w] + InFlight(w)
        /\ err[w] => pc[w] \in {"exec2", "lock", "append"}
    /\ \A i \in 1..Len(logs) :
        /\ logs[i].whole
        /\ logs[i].ResponseTime >= 0

\* C9 witness: a worker has appended the sample of a failed iteration and
\* begun its next iteration, while another worker runs its command.
C9_Witness ==
    \E i \in 1..Len(logs) :
        /\ logs[i].failed
        /\ Len(starts[logs[i].worker]) > logs[i].iter
        /\ pc[logs[i].worker] = "exec1"

\* C10 (as claimed): once validateArgs has accepted the command line, no
\* worker aborts the process.
C10_NoWorkerAborts == proc # "panic"


ParseSeconds(f) == f[1] * 1000000 + f[2]

\* C13: when saveLogs meets no error, the file is the header row followed by
\* exactly one row per sample it was given, in order, whatever an earlier
\* file held; read back, every row has its sample's timestamp in seconds and
\* a non-negative duration, the sample's to the nearest microsecond.
C13_PersistRoundTrip ==
    (hpc = "exit" /\ ioErr = "none")
    => /\ file.exists
       /\ file.header = HeaderRow
       /\ Len(file.rows) = Len(saved)
       /\ \A i \in 1..Len(saved) :
            LET parsed == ParseSeconds(file.rows[i][2])
                diff == 2 * TicksPerSec * parsed
                        - 2000000 * saved[i].ResponseTime
            IN  /\ file.rows[i][1] * TicksPerSec <= saved[i].Timestamp
                /\ saved[i].Timestamp < (file.rows[i][1] + 1) * TicksPerSec
                /\ parsed >= 0
                /\ diff <= TicksPerSec
                /\ -diff <= TicksPerSec

C13_Witness ==
    /\ hpc = "exit"
    /\ ioErr = "none"
    /\ Len(saved) >= 2
    /\ Len(file.rows) = Len(saved)
    /\ \E i \in 1..Len(saved) : saved[i].ResponseTime > 0

\* C14: a worker that waits for its command or for the end of its sleep
\* holds nothing another worker needs.  logMutex is held only by a worker
\* that is storing its sample, and while the program runs every worker can
\* take its next step: begin an operation unless its own sleep has not
\* ended (or the model's budget of operations is used up), see its command
\* return, take logMutex unless another worker is storing its sample, and
\* store its sample.
C14_WorkersIndependent ==
    proc = "running"
    => /\ logMutex # 0 => pc[logMutex] = "append"
       /\ \A w \in Procs :
            /\ (pc[w] = "throttle" /\ Begun < MaxOps) => ENABLED Throttle(w)
            /\ (/\ pc[w] = "sleep"
                /\ now >= lastQueryTime[w] + TicksPerSec
                /\ Begun < MaxOps) => ENABLED Throttle(w)
            /\ pc[w] = "exec1" => ENABLED Exec1Return(w)
            /\ pc[w] = "exec2" => ENABLED Exec2Return(w)
            /\ (pc[w] = "lock" /\ \A v \in Procs \ {w} : pc[v] # "append")
                   => ENABLED Lock(w)
            /\ pc[w] = "append" => ENABLED AppendUnlock(w)

\* The first worker still waits for its first command, begun no later than
\* the second worker's, and the second worker has appended a sample.
C14_Witness ==
    /\ proc = "running"
    /\ pc[1] = "exec1"
    /\ done[1] = 0
    /\ done[2] = 1
    /\ starts[1][1] <= starts[2][1]

\* The tick at which the duration of a logged sample was taken.
Completed(s) == starts[s.worker][s.iter] + s.ResponseTime

\* C15 (as claimed): the log is in the order in which the operations
\* completed: no sample follows one whose operation completed later.
C15_CompletionOrder ==
    \A i, j \in 1..Len(logs) :
        i < j => Completed(logs[i]) <= Completed(logs[j])


\* C16: whenever a worker passes the head of its loop, its counter is reset
\* and its window start set to the current time if a second or more has
\* passed since the window start, and both are left alone otherwise; the
\* counter never exceeds maxQPS; a worker whose counter has reached maxQPS
\* begins no operation before the window start plus one second; and a
\* worker goes to sleep only with a full counter.  So at most maxQPS
\* operations are counted between two resets.
C16_ThrottleWindow ==
    [][\A w \in Procs :
        LET passes == /\ pc[w] \in {"throttle", "sleep"}
                      /\ pc'[w] # pc[w]
                      /\ proc' = "running"
            expired == now - lastQueryTime[w] >= TicksPerSec
            begins == Len(starts'[w]) - Len(starts[w])
        IN  /\ queryCount'[w] <= args.MaxQPS
            /\ winOps'[w] <= args.MaxQPS
            /\ (passes /\ expired) =>
                    /\ lastQueryTime'[w] = now
                    /\ queryCount'[w] = begins
            /\ (passes /\ ~expired) =>
                    /\ lastQueryTime'[w] = lastQueryTime[w]
                    /\ queryCount'[w] = queryCount[w] + begins
            /\ begins > 0 => (queryCount[w] < args.MaxQPS \/ expired)
            /\ (passes /\ pc'[w] = "sleep") =>
                    /\ queryCount'[w] >= args.MaxQPS
                    /\ begins = 0
    ]_vars

\* A worker's second operation, begun at the reset that ended the window of
\* its first.
C16_Witness ==
    \E w \in Procs :
        /\ pc[w] = "exec1"
        /\ Len(starts[w]) = 2
        /\ starts[w][2] = lastQueryTime[w]
        /\ starts[w][1] + TicksPerSec <= starts[w][2]
        /\ queryCount[w] = 1

\* C17: in composite mode generateCommand is never handed the composite
\* mode: no worker aborts, the first command of an iteration is an addpkg,
\* and the second, generated once the first has returned, is a call.
C17_CompositeNeverSingleTask ==
    Composite
    => /\ proc # "panic"
       /\ \A w \in Procs :
            /\ cmdStr[w].verb \in {"none", "addpkg"}
            /\ cmdStr2[w].verb \in {"none", "call"}
            /\ cmdStr2[w].verb = "call" => cmdStr[w].verb = "addpkg"
            /\ pc[w] \in {"exec1", "exec2", "lock", "append"}
                   => cmdStr[w].verb = "addpkg"
            /\ pc[w] \in {"exec2", "lock", "append"} => cmdStr2[w].verb = "call"

C17_Witness ==
    /\ Composite
    /\ \E w \in Procs :
        /\ pc[w] = "append"
        /\ cmdStr[w].verb = "addpkg"
        /\ cmdStr2[w].verb = "call"

\* C18 (as claimed): from the moment the signal goroutine has received the
\* stop signal until the process exits, no worker begins an operation.
C18_NoStartAfterSignal ==
    [][hpc = "save" => starts' = starts]_vars

\* C19 (as claimed): a failure to create the file or to write to it is
\* reported, and the process still ends with the normal exit.
C19_PersistenceErrorReported ==
    ioErr # "none" => (reported /\ hpc = "exit" /\ proc = "exit0")

\* Samples of worker w in the log.
SamplesOf(w) == Cardinality({i \in 1..Len(logs) : logs[i].worker = w})

\* C20: in composite mode every iteration executes two commands, counts
\* once against maxQPS and appends one sample: the commands a worker has
\* started are two for each iteration begun (one while the first still
\* runs), the counter equals the iterations begun since the reset and is at
\* most maxQPS, the worker's samples are as many as its completed
\* iterations, and the duration of an iteration runs from its start to the
\* return of the call command.
C20_CompositeOneSlot ==
    Composite
    => \A w \in Procs :
        /\ execs[w] = 2 * Len(starts[w]) - (IF pc[w] = "exec1" THEN 1 ELSE 0)
        /\ queryCount[w] = winOps[w]
        /\ winOps[w] <= args.MaxQPS
        /\ SamplesOf(w) = done[w]
        /\ done[w] = Len(starts[w])
                     - (IF pc[w] \in {"exec1", "exec2", "lock", "append"}
                        THEN 1 ELSE 0)
        /\ pc[w] \in {"lock", "append"} =>
                /\ cmdStr2[w].verb = "call"
                /\ start[w] + duration[w] = lastReturn[w]
                /\ execs[w] = 2 * (done[w] + 1)

\* A completed composite iteration whose two commands took two ticks in
\* all, counted once, with one sample.
C20_Witness ==
    /\ Composite
    /\ \E w \in Procs :
        /\ done[w] = 1
        /\ execs[w] = 2
        /\ winOps[w] = 1
        /\ SamplesOf(w) = 1
        /\ \E i \in 1..Len(logs) :
            logs[i].worker = w /\ logs[i].ResponseTime = 2

=============================================================================
